---------------------------- MODULE Spec2Model ----------------------------
(***************************************************************************)
(* A state-machine model of the two adapters of the test tool:             *)
(*                                                                         *)
(*   - the REST plugin (src/test_tool_rest_plugin/main.py):                *)
(*     augment_rest_call, assert_response, make_rest_call;                 *)
(*   - the SSH copy plugin (src/test_tool_copy_files_ssh_plugin/main.py):  *)
(*     run_with_ssh_client, copy_remote_file, download_directory.          *)
(*                                                                         *)
(* Python values are modelled as tagged records [k |-> kind, v |-> ...]    *)
(* and are compared only through PyEq, which follows Python's ==.          *)
(***************************************************************************)
EXTENDS Integers, Sequences, FiniteSets, TLC

VARIABLES
    call,       \* the RestCall dictionary (mutated in place by the plugin)
    pc,         \* "raw" | "augmented" | "failed" | "done"
    handles,    \* file handles opened so far: <<[key, mode, open]>>
    augError,   \* the exception augment_rest_call raised (NoExc: none)
    response,   \* what the transport answered
    request,    \* the request handed to the transport
    inner,      \* the exception assert_response raised (NoExc: none)
    outcome,    \* the exception make_rest_call raised (NoExc: returned)
    logged,     \* what make_rest_call wrote with logging.error
    sshCall,    \* the CopyFilesSshCall dictionary
    remote,     \* the remote file system at and below call["remote_path"]
    localKind,  \* what call["local_path"] is on the local disk: "file" | "dir" | "absent"
    sshPc,      \* where make_copy_files_ssh_call stands
    session,    \* the SSHClient: "new" | "open" | "closed"
    sftpOpen,   \* whether the SFTP client of copy_remote_file is open
    stack,      \* the frames of download_directory, innermost last
    events,     \* the operations issued so far, in order
    sshExc      \* the exception on its way to the caller (NoExc: none)

restVars == <<call, pc, handles, augError, response, request, inner, outcome, logged>>
sshVars == <<sshCall, remote, localKind, sshPc, session, sftpOpen, stack, events, sshExc>>
vars == <<restVars, sshVars>>

---------------------------------------------------------------------------
(* Python values *)

JNull == [k |-> "null", v |-> 0]
JInt(n) == [k |-> "int", v |-> n]
JBool(b) == [k |-> "bool", v |-> b]
JStr(s) == [k |-> "str", v |-> s]
JList(s) == [k |-> "list", v |-> s]
\* a dict: o is the insertion order of its keys, v maps each key to its value
JMap(o, f) == [k |-> "map", o |-> o, v |-> f]
\* response.json() raising JSONDecodeError
NoJson == [k |-> "nojson", v |-> 0]

IsNum(a) == a.k \in {"int", "bool"}

\* bool is a subclass of int: True == 1, False == 0
Num(a) == IF a.k = "bool" THEN (IF a.v THEN 1 ELSE 0) ELSE a.v

RECURSIVE PyEq(_, _)
\* Python's == on parsed JSON values
PyEq(a, b) ==
    IF IsNum(a) /\ IsNum(b) THEN Num(a) = Num(b)
    ELSE IF a.k # b.k THEN FALSE
    ELSE CASE a.k = "str" -> a.v = b.v
           [] a.k = "map" -> /\ DOMAIN a.v = DOMAIN b.v
                             /\ \A key \in DOMAIN a.v : PyEq(a.v[key], b.v[key])
           [] a.k = "list" -> /\ Len(a.v) = Len(b.v)
                              /\ \A i \in 1..Len(a.v) : PyEq(a.v[i], b.v[i])
           [] OTHER -> TRUE

\* Python's truth value of an object
PyTruth(a) ==
    CASE a.k = "null" -> FALSE
      [] a.k = "bool" -> a.v
      [] a.k = "int" -> a.v # 0
      [] a.k = "str" -> a.v # ""
      [] a.k = "list" -> Len(a.v) > 0
      [] a.k = "map" -> Len(a.o) > 0
      [] OTHER -> TRUE

RECURSIVE PyRepr(_)
RECURSIVE ReprItems(_, _)
RECURSIVE ReprElems(_, _)
\* repr() of a value, as the sequence of its tokens
PyRepr(a) ==
    CASE a.k = "null" -> <<"None">>
      [] a.k = "bool" -> IF a.v THEN <<"True">> ELSE <<"False">>
      [] a.k = "int" -> <<ToString(a.v)>>
      [] a.k = "str" -> <<"'", a.v, "'">>
      [] a.k = "list" -> <<"[">> \o ReprElems(a, 1) \o <<"]">>
      [] a.k = "map" -> <<"{">> \o ReprItems(a, 1) \o <<"}">>
      [] OTHER -> <<>>

ReprItems(a, i) ==
    IF i > Len(a.o) THEN <<>>
    ELSE (IF i > 1 THEN <<", ">> ELSE <<>>)
         \o <<"'", a.o[i], "'", ": ">> \o PyRepr(a.v[a.o[i]]) \o ReprItems(a, i + 1)

ReprElems(a, i) ==
    IF i > Len(a.v) THEN <<>>
    ELSE (IF i > 1 THEN <<", ">> ELSE <<>>) \o PyRepr(a.v[i]) \o ReprElems(a, i + 1)

\* str(x) of a dict or list is its repr
PyStr(a) == IF a.k = "str" THEN <<a.v>> ELSE PyRepr(a)

InSeq(x, s) == \E i \in 1..Len(s) : s[i] = x

---------------------------------------------------------------------------
(* Exceptions *)

Exc(type, at, key) == [type |-> type, at |-> at, key |-> key]
NoExc == Exc("none", "", "")

---------------------------------------------------------------------------
(* The REST plugin: data *)

Methods == {"POST", "GET", "PUT", "DELETE"}
Types == {"XML", "JSON", "TEXT"}

\* Optional[Dict]: None, or the items of the dict in insertion order
NoneDict == [k |-> "null", v |-> <<>>]
Dict(items) == [k |-> "map", v |-> items]

\* an entry of call["files"] / call["multipart"]:
\*   kind "dict"   a File description {path, binary, media}
\*   kind "other"  anything that is not a dict
\*   kind "loaded" the tuple (path, open handle, media); h is the handle
\*   kind "raw"    a multipart value as configured
\*   kind "part"   the tuple (None, dumps(part), "application/json")
Entry(key, kind, binary, h) == [key |-> key, kind |-> kind, binary |-> binary, h |-> h]

default_rest_call ==
    [ base_url |-> "${REST_BASE_URL}",
      path |-> "${REST_PATH}",
      url |-> <<>>,
      method |-> JStr("GET"),
      data |-> JNull,
      files |-> NoneDict,
      multipart |-> NoneDict,
      timeout |-> 0,
      headers |-> {},
      verify |-> FALSE,
      response_type |-> JStr("JSON"),
      assertion |-> JNull,
      hide_logs |-> FALSE,
      status_codes |-> <<200>> ]

\* the timeout every verb is called with (timeout=10)
DispatchTimeout == 10

NoRequest == [sent |-> FALSE, verb |-> "", kwargs |-> {}, timeout |-> 0,
              headers |-> {}, files |-> <<>>]
\* no request was answered: ok = FALSE stands for the transport raising
NoResponse == [ok |-> FALSE, status |-> 0, text |-> "", json |-> NoJson]

---------------------------------------------------------------------------
(* augment_rest_call *)

\* index of the first entry of call["files"] that is not a dict (Len + 1: none)
RECURSIVE FirstNotDict(_, _)
FirstNotDict(items, i) ==
    IF i > Len(items) THEN i
    ELSE IF items[i].kind # "dict" THEN i
    ELSE FirstNotDict(items, i + 1)

\* the loop over call["files"]: every dict met before the first non-dict is
\* opened ("rb" or "r") and replaced by (path, handle, media)
LoadFiles(items, hs) ==
    LET stop == FirstNotDict(items, 1)
        loaded == [i \in 1..Len(items) |->
                     IF i < stop
                     THEN Entry(items[i].key, "loaded", items[i].binary, Len(hs) + i)
                     ELSE items[i]]
        opened == [i \in 1..(stop - 1) |->
                     [key |-> items[i].key,
                      mode |-> IF items[i].binary THEN "rb" ELSE "r",
                      open |-> TRUE]]
    IN [items |-> loaded, handles |-> hs \o opened, bad |-> stop <= Len(items)]

\* the loop over call["multipart"]
DumpParts(items) ==
    [i \in 1..Len(items) |-> Entry(items[i].key, "part", FALSE, 0)]

\* the assertion block: [err, assertion]
AugmentAssertion(a) ==
    IF a.k = "null" THEN [err |-> NoExc, assertion |-> a]
    ELSE IF a.k # "map" THEN [err |-> Exc("ValueError", "assertion", ""), assertion |-> a]
    ELSE
    LET hasOd == "only_defined" \in DOMAIN a.v /\ a.v["only_defined"].k # "null"
        a1 == IF hasOd THEN a
              ELSE JMap(IF "only_defined" \in DOMAIN a.v THEN a.o
                        ELSE Append(a.o, "only_defined"),
                        [key \in DOMAIN a.v \cup {"only_defined"} |->
                           IF key = "only_defined" THEN JBool(FALSE) ELSE a.v[key]])
    IN IF hasOd /\ a.v["only_defined"].k # "bool"
       THEN [err |-> Exc("ValueError", "only_defined", ""), assertion |-> a]
       ELSE IF "value" \notin DOMAIN a1.v \/ a1.v["value"].k = "null"
       THEN [err |-> Exc("ValueError", "value", ""), assertion |-> a1]
       ELSE IF a1.v["value"].k # "str" /\ a1.v["value"].k # "map"
       THEN [err |-> Exc("ValueError", "value_type", ""), assertion |-> a1]
       ELSE [err |-> NoExc, assertion |-> a1]

\* augment_rest_call(call, data, path): [err, call, handles]. The fields the
\* inputs keep well typed (base_url, path, url, timeout, headers, verify,
\* hide_logs, status_codes) pass their isinstance checks.
AugmentRestCall(c, hs) ==
    LET c1 == IF c.url = <<>> THEN [c EXCEPT !.url = <<c.base_url, c.path>>] ELSE c
    IN
    IF c1.method.k # "str" THEN [err |-> Exc("ValueError", "method", ""), call |-> c1, handles |-> hs]
    ELSE IF c1.method.v \notin Methods
    THEN [err |-> Exc("ValueError", "method", ""), call |-> c1, handles |-> hs]
    ELSE
    LET c2 == [c1 EXCEPT !.method = [k |-> "Method", v |-> c1.method.v]]
        lf == IF c2.files.k = "null"
              THEN [items |-> <<>>, handles |-> hs, bad |-> FALSE]
              ELSE LoadFiles(c2.files.v, hs)
        c3 == IF c2.files.k = "null" THEN c2 ELSE [c2 EXCEPT !.files = Dict(lf.items)]
    IN
    IF lf.bad THEN [err |-> Exc("ValueError", "files", ""), call |-> c3, handles |-> lf.handles]
    ELSE
    LET c4 == IF c3.multipart.k = "null" THEN c3
              ELSE [c3 EXCEPT !.multipart = Dict(DumpParts(c3.multipart.v))]
    IN
    IF c4.response_type.k # "str" \/ c4.response_type.v \notin Types
    THEN [err |-> Exc("ValueError", "response_type", ""), call |-> c4, handles |-> lf.handles]
    ELSE
    LET c5 == [c4 EXCEPT !.response_type = [k |-> "Type", v |-> c4.response_type.v]]
        aa == AugmentAssertion(c5.assertion)
        c6 == [c5 EXCEPT !.assertion = aa.assertion]
    IN [err |-> aa.err, call |-> c6, handles |-> lf.handles]

---------------------------------------------------------------------------
(* assert_response *)

\* call["files"][key] = value: replaces the entry of that key, or adds one
RECURSIVE PutAll(_, _, _)
PutEntry(items, e) ==
    IF \E i \in 1..Len(items) : items[i].key = e.key
    THEN [i \in 1..Len(items) |-> IF items[i].key = e.key THEN e ELSE items[i]]
    ELSE Append(items, e)

PutAll(items, parts, i) ==
    IF i > Len(parts) THEN items
    ELSE PutAll(PutEntry(items, parts[i]), parts, i + 1)

\* "Add multipart as files": call["files"] after the merge
MergeMultipart(c) ==
    IF c.multipart.k # "null" /\ Len(c.multipart.v) > 0
    THEN Dict(PutAll(IF c.files.k = "null" THEN <<>> ELSE c.files.v, c.multipart.v, 1))
    ELSE c.files

\* the keyword arguments collected in data
RequestKwargs(c, hasFiles) ==
    {"headers", "verify"}
    \cup (IF hasFiles THEN {"files"} ELSE IF c.data.k # "null" THEN {"data"} ELSE {})
    \cup (IF c.timeout # 0 THEN {"timeout"} ELSE {})

\* the loop of the only_defined comparison: the first key of the expected
\* mapping, in its order, that is missing from the body or differs in it
RECURSIVE CompareDefined(_, _, _)
CompareDefined(expected, body, i) ==
    IF i > Len(expected.o) THEN NoExc
    ELSE LET key == expected.o[i] IN
         IF key \notin DOMAIN body.v THEN Exc("AssertionError", "key_missing", key)
         ELSE IF ~PyEq(body.v[key], expected.v[key])
         THEN Exc("AssertionError", "key_differs", key)
         ELSE CompareDefined(expected, body, i + 1)

\* "Compare the response": the exception raised, NoExc when none
CompareResponse(c, resp) ==
    IF c.assertion.k = "null" THEN NoExc
    ELSE LET value == c.assertion.v["value"] IN
    CASE value.k = "str" ->
           IF resp.text = value.v THEN NoExc ELSE Exc("AssertionError", "text", "")
      [] value.k = "map" ->
           IF PyTruth(c.assertion.v["only_defined"])
           THEN IF resp.json.k = "nojson" THEN Exc("JSONDecodeError", "json", "")
                ELSE IF resp.json.k # "map" THEN Exc("AssertionError", "isinstance", "")
                ELSE CompareDefined(value, resp.json, 1)
           ELSE IF resp.json.k = "nojson" THEN Exc("JSONDecodeError", "json", "")
                ELSE IF PyEq(resp.json, c.assertion) THEN NoExc
                ELSE Exc("AssertionError", "equal", "")
      [] value.k = "list" ->
           IF resp.json.k = "nojson" THEN Exc("JSONDecodeError", "json", "")
           ELSE IF PyEq(resp.json, c.assertion) THEN NoExc
           ELSE Exc("AssertionError", "equal", "")
      [] OTHER -> Exc("AssertionError", "unsupported", "")

\* assert_response(call) against a transport answering resp:
\* [exc, call, request, response]
AssertResponse(c, resp) ==
    LET c1 == [c EXCEPT !.files = MergeMultipart(c)]
        hasFiles == c1.files.k # "null" /\ Len(c1.files.v) > 0
    IN
    IF hasFiles /\ "Content-Type" \notin c1.headers
    THEN \* del data["headers"]["Content-Type"]
         [exc |-> Exc("KeyError", "del_content_type", "Content-Type"), call |-> c1,
          request |-> NoRequest, response |-> NoResponse]
    ELSE
    LET c2 == IF hasFiles THEN [c1 EXCEPT !.headers = @ \ {"Content-Type"}] ELSE c1
        kwargs == RequestKwargs(c2, hasFiles)
    IN
    IF "timeout" \in kwargs
    THEN \* get(url, timeout=10, **data): timeout is given twice
         [exc |-> Exc("TypeError", "dispatch", "timeout"), call |-> c2,
          request |-> NoRequest, response |-> NoResponse]
    ELSE
    LET req == [sent |-> TRUE, verb |-> c2.method.v, kwargs |-> kwargs \cup {"timeout"},
                timeout |-> DispatchTimeout, headers |-> c2.headers,
                files |-> IF hasFiles THEN c2.files.v ELSE <<>>]
    IN
    IF ~resp.ok
    THEN [exc |-> Exc("ConnectionError", "dispatch", ""), call |-> c2,
          request |-> req, response |-> NoResponse]
    ELSE IF ~InSeq(resp.status, c2.status_codes)
    THEN [exc |-> Exc("AssertionError", "status", ""), call |-> c2,
          request |-> req, response |-> resp]
    ELSE [exc |-> CompareResponse(c2, resp), call |-> c2,
          request |-> req, response |-> resp]

---------------------------------------------------------------------------
(* make_rest_call *)

\* xml.dom.minidom.parseString accepts only a well-formed document, which
\* starts with "<"
ParseStringOk(text) == Len(text) > 0 /\ Head(text) = "<"

\* pretty_xml(xml): [exc, text]
pretty_xml(xml) ==
    IF ParseStringOk(xml) THEN [exc |-> NoExc, text |-> <<"toprettyxml">> \o xml]
    ELSE [exc |-> Exc("ExpatError", "pretty_xml", ""), text |-> <<>>]

\* pretty_json(json): json.dumps of a str is that str in double quotes
pretty_json(json) == [exc |-> NoExc, text |-> <<"\"">> \o json \o <<"\"">>]

\* the except branch of make_rest_call for the AssertionError e:
\* [exc, logged]
HandleAssertionError(c, e) ==
    IF c.assertion.k # "null"
    THEN LET rendered ==
               IF c.response_type.v = "XML" THEN pretty_xml(PyStr(c.assertion))
               ELSE IF c.response_type.v = "JSON" THEN pretty_json(PyStr(c.assertion))
               ELSE [exc |-> NoExc, text |-> PyStr(c.assertion)]
         IN IF rendered.exc.type # "none"
            THEN [exc |-> rendered.exc, logged |-> <<>>]
            ELSE [exc |-> e, logged |-> <<rendered.text>>]
    ELSE [exc |-> NoExc, logged |-> <<>>]

\* make_rest_call(call, data): [exc, inner, call, request, response, logged]
MakeRestCallResult(c, resp) ==
    LET r == AssertResponse(c, resp)
        h == IF r.exc.type = "AssertionError" THEN HandleAssertionError(r.call, r.exc)
             ELSE [exc |-> r.exc, logged |-> <<>>]
    IN [exc |-> h.exc, inner |-> r.exc, call |-> r.call, request |-> r.request,
        response |-> r.response, logged |-> h.logged]

---------------------------------------------------------------------------
(* The calls and the responses the REST plugin is run on *)

MaxFiles == 2
MaxTimeout == 1

FileKeys == <<"f1", "f2", "f3", "f4">>
FileKinds == {[kind |-> "dict", binary |-> TRUE], [kind |-> "dict", binary |-> FALSE],
              [kind |-> "other", binary |-> FALSE]}
FileItems(n) ==
    {[i \in 1..n |-> Entry(FileKeys[i], ks[i].kind, ks[i].binary, 0)] : ks \in [1..n -> FileKinds]}
FilesInputs == {NoneDict} \cup {Dict(items) : items \in UNION {FileItems(n) : n \in 0..MaxFiles}}
MultipartInputs == {NoneDict, Dict(<<Entry("m1", "raw", FALSE, 0)>>)}
HeadersInputs == SUBSET {"Content-Type", "Accept"}
TimeoutInputs == 0..MaxTimeout
\* two of the four verbs, which are dispatched alike, and one that is no Method
MethodInputs == {"GET", "POST", "PATCH"}
ResponseTypeInputs == Types \cup {"YAML"}
StatusCodesInputs == {<<200>>, <<200, 204>>}

MapA1 == JMap(<<"a">>, [a |-> JInt(1)])
MapA2 == JMap(<<"a">>, [a |-> JInt(2)])
MapB2 == JMap(<<"b">>, [b |-> JInt(2)])
MapA1B2 == JMap(<<"a", "b">>, [a |-> JInt(1), b |-> JInt(2)])
MapEmpty == JMap(<<>>, <<>>)
List12 == JList(<<JInt(1), JInt(2)>>)
List21 == JList(<<JInt(2), JInt(1)>>)

\* an assertion as configured: {"value": value} with only_defined as given
\* ("absent": the key is not there)
AssertionOf(value, od) ==
    IF od = "absent" THEN JMap(<<"value">>, [value |-> value])
    ELSE JMap(<<"value", "only_defined">>,
              [value |-> value, only_defined |-> IF od = "true" THEN JBool(TRUE) ELSE JBool(FALSE)])

AssertionValues == <<JStr("ok"), MapA1, MapA1B2, List12>>
OnlyDefinedInputs == <<"absent", "true", "false">>

AssertionInputs ==
    <<JNull,
      JMap(<<"only_defined">>, [only_defined |-> JBool(TRUE)]),
      JMap(<<"value">>, [value |-> JNull]),
      JMap(<<"value">>, [value |-> JInt(5)]),
      JMap(<<"value", "only_defined">>, [value |-> MapA1, only_defined |-> JStr("yes")]),
      JMap(<<"value", "only_defined">>, [value |-> MapEmpty, only_defined |-> JBool(TRUE)])>>
    \o [i \in 1..(Len(AssertionValues) * Len(OnlyDefinedInputs)) |->
          AssertionOf(AssertionValues[((i - 1) \div Len(OnlyDefinedInputs)) + 1],
                      OnlyDefinedInputs[((i - 1) % Len(OnlyDefinedInputs)) + 1])]

\* response bodies: the text and what response.json() makes of it
Bodies ==
    <<[text |-> "ok", json |-> NoJson],
      [text |-> "ok ", json |-> NoJson],
      [text |-> "", json |-> NoJson],
      [text |-> "{\"a\": 1}", json |-> MapA1],
      [text |-> "{\"a\": 1, \"b\": 2}", json |-> MapA1B2],
      [text |-> "{\"a\": 2}", json |-> MapA2],
      [text |-> "{\"b\": 2}", json |-> MapB2],
      [text |-> "[1, 2]", json |-> List12],
      [text |-> "[2, 1]", json |-> List21],
      [text |-> "{\"value\": {\"a\": 1}, \"only_defined\": false}",
       json |-> AssertionOf(MapA1, "false")],
      [text |-> "{\"value\": [1, 2], \"only_defined\": false}",
       json |-> AssertionOf(List12, "false")]>>
Statuses == {200, 204, 500}

\* the answers of the transport: a response, or an exception (ok = FALSE)
Answer(status, b) == [ok |-> TRUE, status |-> status, text |-> Bodies[b].text, json |-> Bodies[b].json]

---------------------------------------------------------------------------
(* The SSH copy plugin: data *)

default_copy_files_ssh_call ==
    [ user |-> "${REMOTE_CMD_USER}",
      password |-> "${REMOTE_CMD_PASSWORD}",
      host |-> "${REMOTE_CMD_HOST}",
      local_path |-> <<>>,
      remote_path |-> <<>>,
      download |-> FALSE ]

---------------------------------------------------------------------------
(* The REST call lifecycle *)

RestInit ==
    /\ \E f \in FilesInputs, m \in MultipartInputs, h \in HeadersInputs,
          t \in TimeoutInputs, me \in MethodInputs, rt \in ResponseTypeInputs,
          a \in DOMAIN AssertionInputs, sc \in StatusCodesInputs :
         call = [default_rest_call EXCEPT !.files = f, !.multipart = m, !.headers = h,
                                          !.timeout = t, !.method = JStr(me),
                                          !.response_type = JStr(rt),
                                          !.assertion = AssertionInputs[a],
                                          !.status_codes = sc]
    /\ pc = "raw"
    /\ handles = <<>>
    /\ augError = NoExc
    /\ response = NoResponse
    /\ request = NoRequest
    /\ inner = NoExc
    /\ outcome = NoExc
    /\ logged = <<>>

\* no SSH call is under way
SshIdle ==
    /\ sshCall = default_copy_files_ssh_call
    /\ remote = [root |-> "missing", nodes |-> {}]
    /\ localKind = "file"
    /\ sshPc = "idle"
    /\ session = "new"
    /\ sftpOpen = FALSE
    /\ stack = <<>>
    /\ events = <<>>
    /\ sshExc = NoExc

\* the caller runs augment_rest_call(call, data, path)
Augment ==
    /\ pc = "raw"
    /\ LET r == AugmentRestCall(call, handles) IN
         /\ call' = r.call
         /\ handles' = r.handles
         /\ augError' = r.err
         /\ pc' = IF r.err.type = "none" THEN "augmented" ELSE "failed"
    /\ UNCHANGED <<response, request, inner, outcome, logged>>
    /\ UNCHANGED sshVars

\* the caller runs make_rest_call(call, data); the transport answers resp
MakeRestCallWith(resp) ==
    /\ pc = "augmented"
    /\ LET r == MakeRestCallResult(call, resp) IN
         /\ call' = r.call
         /\ request' = r.request
         /\ response' = r.response
         /\ inner' = r.inner
         /\ outcome' = r.exc
         /\ logged' = r.logged
    /\ pc' = "done"
    /\ UNCHANGED <<handles, augError>>
    /\ UNCHANGED sshVars

MakeRestCall ==
    \E resp \in {NoResponse} \cup {Answer(st, b) : st \in Statuses, b \in DOMAIN Bodies} :
        MakeRestCallWith(resp)

Init == RestInit /\ SshIdle

Next == Augment \/ MakeRestCall

Spec == Init /\ [][Next]_vars

---------------------------------------------------------------------------
(* The SSH copy plugin: the remote trees it is run on *)

MaxDepth == 3
MaxNodes == 4

NameSeq == <<"a", "b">>
RemoteRoot == <<"remote">>
LocalRoot == <<"local">>

Node(path, dir) == [path |-> path, dir |-> dir]

\* the trees below the directory p that use the names NameSeq[i..] at p,
\* are at most d levels deep and have at most n nodes
RECURSIVE Trees(_, _, _, _)
Trees(p, i, d, n) ==
    IF i > Len(NameSeq) \/ d = 0 \/ n = 0 THEN {{}}
    ELSE LET q == Append(p, NameSeq[i]) IN
         Trees(p, i + 1, d, n)
         \cup {{Node(q, FALSE)} \cup t : t \in Trees(p, i + 1, d, n - 1)}
         \cup UNION {{{Node(q, TRUE)} \cup sub \cup t :
                        t \in Trees(p, i + 1, d, n - 1 - Cardinality(sub))} :
                     sub \in Trees(q, 1, d - 1, n - 1)}

RemoteTrees == Trees(RemoteRoot, 1, MaxDepth, MaxNodes)

\* the entries sftp.listdir_attr(p) yields
Children(nodes, p) ==
    {nd \in nodes : Len(nd.path) = Len(p) + 1 /\ SubSeq(nd.path, 1, Len(p)) = p}

\* the orders a listing can come in
Orderings(S) ==
    {s \in [1..Cardinality(S) -> S] : \A i, j \in 1..Cardinality(S) : i # j => s[i] # s[j]}

\* Path.name
PathName(p) == p[Len(p)]
\* Path.parent
PathParent(p) == SubSeq(p, 1, Len(p) - 1)

---------------------------------------------------------------------------
(* run_with_ssh_client, copy_remote_file, download_directory *)

Ev(op, src, dst) == [op |-> op, src |-> src, dst |-> dst]
SftpOps == {"stat", "mkdir", "listdir", "put", "get"}

Frame(r, l) == [remote |-> r, local |-> l, listed |-> FALSE, todo |-> <<>>]

\* a try block without its finally clause: an exception goes to the caller
AfterTryBlockNoFinally(exc) == IF exc.type = "none" THEN "finally" ELSE "returned"

\* try: connect; callable(client) finally: client.close() -- where control
\* goes when the try block is left with the exception exc (NoExc: normally)
AfterTryBlock(exc) == "finally"

\* with client.open_sftp() as sftp: -- where control goes when the body of
\* the with statement is left
AfterWithBody(exc) == "sftp_exit"

\* download_directory recursing without creating the local directory
MkdirLocalItemSkipped(evs, localItem) == evs

\* download_directory, line 71: local_item.mkdir(parents=True, exist_ok=True)
MkdirLocalItem(evs, localItem) == Append(evs, Ev("local_mkdir", localItem, <<>>))

\* the calls make_copy_files_ssh_call is run on, after augmentation
SshInit ==
    /\ \E dl \in BOOLEAN :
         sshCall = [default_copy_files_ssh_call EXCEPT !.local_path = LocalRoot,
                                                       !.remote_path = RemoteRoot,
                                                       !.download = dl]
    /\ \/ \E t \in RemoteTrees : remote = [root |-> "dir", nodes |-> t]
       \/ \E k \in {"file", "missing"} : remote = [root |-> k, nodes |-> {}]
    /\ localKind \in {"file", "dir", "absent"}
    /\ sshPc = "start"
    /\ session = "new"
    /\ sftpOpen = FALSE
    /\ stack = <<>>
    /\ events = <<>>
    /\ sshExc = NoExc

\* an exception leaves the body of the with statement
Raise(type, at) ==
    /\ sshExc' = Exc(type, at, "")
    /\ sshPc' = AfterWithBody(Exc(type, at, ""))
    /\ stack' = <<>>

\* client.connect(host, username=user, password=password)
Connect ==
    /\ sshPc = "start"
    /\ events' = Append(events, Ev("connect", <<>>, <<>>))
    /\ \E ok \in BOOLEAN :
         IF ok
         THEN /\ session' = "open"
              /\ sshPc' = "callable"
              /\ sshExc' = sshExc
         ELSE /\ session' = session
              /\ sshExc' = Exc("SSHException", "connect", "")
              /\ sshPc' = AfterTryBlock(Exc("SSHException", "connect", ""))
    /\ UNCHANGED <<sshCall, remote, localKind, sftpOpen, stack>>
    /\ UNCHANGED restVars

\* copy_remote_file: client.open_sftp()
OpenSftp ==
    /\ sshPc = "callable"
    /\ events' = Append(events, Ev("open_sftp", <<>>, <<>>))
    /\ \E ok \in BOOLEAN :
         IF ok
         THEN /\ sftpOpen' = TRUE
              /\ sshPc' = IF sshCall.download THEN "dl_local_mkdir" ELSE "up_stat"
              /\ sshExc' = sshExc
         ELSE /\ sftpOpen' = sftpOpen
              /\ sshExc' = Exc("SSHException", "open_sftp", "")
              /\ sshPc' = AfterTryBlock(Exc("SSHException", "open_sftp", ""))
    /\ UNCHANGED <<sshCall, remote, localKind, session, stack>>
    /\ UNCHANGED restVars

\* upload: sftp.stat(remote_path), FileNotFoundError caught
UpStat ==
    /\ sshPc = "up_stat"
    /\ events' = Append(events, Ev("stat", sshCall.remote_path, <<>>))
    /\ \E ok \in BOOLEAN :
         IF ok
         THEN /\ sshPc' = IF remote.root = "missing" THEN "up_mkdir" ELSE "up_copy"
              /\ UNCHANGED <<sshExc, stack>>
         ELSE Raise("IOError", "stat")
    /\ UNCHANGED <<sshCall, remote, localKind, session, sftpOpen>>
    /\ UNCHANGED restVars

\* upload: sftp.mkdir(remote_path)
UpMkdir ==
    /\ sshPc = "up_mkdir"
    /\ events' = Append(events, Ev("mkdir", sshCall.remote_path, <<>>))
    /\ \E ok \in BOOLEAN :
         IF ok
         THEN /\ remote' = [remote EXCEPT !.root = "dir"]
              /\ sshPc' = "up_copy"
              /\ UNCHANGED <<sshExc, stack>>
         ELSE /\ remote' = remote
              /\ Raise("IOError", "mkdir")
    /\ UNCHANGED <<sshCall, localKind, session, sftpOpen>>
    /\ UNCHANGED restVars

\* "Copy the file" without the is_dir check: whatever local_path is, it is put
UpCopyWithoutDirCheck ==
    /\ sshPc = "up_copy"
    /\ events' = Append(events, Ev("put", sshCall.local_path,
                                Append(sshCall.remote_path, PathName(sshCall.local_path))))
    /\ \E ok \in BOOLEAN :
         IF localKind = "absent" THEN Raise("FileNotFoundError", "put")
         ELSE IF ok
         THEN /\ sshPc' = AfterWithBody(NoExc)
              /\ UNCHANGED <<sshExc, stack>>
         ELSE Raise("IOError", "put")
    /\ UNCHANGED <<sshCall, remote, localKind, session, sftpOpen>>
    /\ UNCHANGED restVars

\* upload: "Copy the file" -- a directory is refused, a file is put
UpCopy ==
    /\ sshPc = "up_copy"
    /\ IF localKind = "dir"
       THEN /\ events' = events
            /\ Raise("AssertionError", "is_dir")
       ELSE /\ events' = Append(events, Ev("put", sshCall.local_path,
                                           Append(sshCall.remote_path, PathName(sshCall.local_path))))
            /\ \E ok \in BOOLEAN :
                 IF localKind = "absent" THEN Raise("FileNotFoundError", "put")
                 ELSE IF ok
                 THEN /\ sshPc' = AfterWithBody(NoExc)
                      /\ UNCHANGED <<sshExc, stack>>
                 ELSE Raise("IOError", "put")
    /\ UNCHANGED <<sshCall, remote, localKind, session, sftpOpen>>
    /\ UNCHANGED restVars

\* download: local_path.mkdir(parents=True, exist_ok=True)
DlLocalMkdir ==
    /\ sshPc = "dl_local_mkdir"
    /\ events' = Append(events, Ev("local_mkdir", sshCall.local_path, <<>>))
    /\ IF localKind = "file"
       THEN /\ localKind' = localKind
            /\ Raise("FileExistsError", "local_mkdir")
       ELSE /\ localKind' = "dir"
            /\ sshPc' = "dl_stat"
            /\ UNCHANGED <<sshExc, stack>>
    /\ UNCHANGED <<sshCall, remote, session, sftpOpen>>
    /\ UNCHANGED restVars

\* download: S_ISDIR(sftp.stat(remote_path).st_mode)
DlStat ==
    /\ sshPc = "dl_stat"
    /\ events' = Append(events, Ev("stat", sshCall.remote_path, <<>>))
    /\ \E ok \in BOOLEAN :
         IF ~ok THEN Raise("IOError", "stat")
         ELSE IF remote.root = "missing" THEN Raise("FileNotFoundError", "stat")
         ELSE IF remote.root = "dir"
         THEN /\ stack' = <<Frame(sshCall.remote_path, sshCall.local_path)>>
              /\ sshPc' = "dl_dir"
              /\ sshExc' = sshExc
         ELSE /\ sshPc' = "dl_get"
              /\ UNCHANGED <<sshExc, stack>>
    /\ UNCHANGED <<sshCall, remote, localKind, session, sftpOpen>>
    /\ UNCHANGED restVars

\* download of a single file: sftp.get(remote_path, local_path / remote_path.name)
DlGet ==
    /\ sshPc = "dl_get"
    /\ events' = Append(events, Ev("get", sshCall.remote_path,
                                   Append(sshCall.local_path, PathName(sshCall.remote_path))))
    /\ \E ok \in BOOLEAN :
         IF ok
         THEN /\ sshPc' = AfterWithBody(NoExc)
              /\ UNCHANGED <<sshExc, stack>>
         ELSE Raise("IOError", "get")
    /\ UNCHANGED <<sshCall, remote, localKind, session, sftpOpen>>
    /\ UNCHANGED restVars

\* download_directory: sftp.listdir_attr(remote_path), in the order it comes
DlList ==
    /\ sshPc = "dl_dir"
    /\ ~stack[Len(stack)].listed
    /\ LET top == stack[Len(stack)] IN
         /\ events' = Append(events, Ev("listdir", top.remote, <<>>))
         /\ \/ \E order \in Orderings(Children(remote.nodes, top.remote)) :
                 /\ stack' = [stack EXCEPT ![Len(stack)] =
                                [top EXCEPT !.listed = TRUE, !.todo = order]]
                 /\ UNCHANGED <<sshPc, sshExc>>
            \/ Raise("IOError", "listdir")
    /\ UNCHANGED <<sshCall, remote, localKind, session, sftpOpen>>
    /\ UNCHANGED restVars

\* download_directory: one turn of the loop over the listing
DlItem ==
    /\ sshPc = "dl_dir"
    /\ stack[Len(stack)].listed
    /\ stack[Len(stack)].todo # <<>>
    /\ LET top == stack[Len(stack)]
           item == Head(top.todo)
           remoteItem == Append(top.remote, PathName(item.path))
           localItem == Append(top.local, PathName(item.path))
           rest == [stack EXCEPT ![Len(stack)] = [top EXCEPT !.todo = Tail(top.todo)]]
       IN IF item.dir
          THEN /\ events' = MkdirLocalItem(events, localItem)
               /\ \/ /\ stack' = Append(rest, Frame(remoteItem, localItem))
                     /\ UNCHANGED <<sshPc, sshExc>>
                  \/ Raise("OSError", "local_mkdir")
          ELSE /\ events' = Append(events, Ev("get", remoteItem, localItem))
               /\ \/ /\ stack' = rest
                     /\ UNCHANGED <<sshPc, sshExc>>
                  \/ Raise("IOError", "get")
    /\ UNCHANGED <<sshCall, remote, localKind, session, sftpOpen>>
    /\ UNCHANGED restVars

\* download_directory returns: the loop over the listing is over
DlReturn ==
    /\ sshPc = "dl_dir"
    /\ stack[Len(stack)].listed
    /\ stack[Len(stack)].todo = <<>>
    /\ stack' = SubSeq(stack, 1, Len(stack) - 1)
    /\ sshPc' = IF Len(stack) = 1 THEN AfterWithBody(NoExc) ELSE sshPc
    /\ UNCHANGED <<sshCall, remote, localKind, session, sftpOpen, events, sshExc>>
    /\ UNCHANGED restVars

\* the with statement is left: the SFTP client is closed
SftpExit ==
    /\ sshPc = "sftp_exit"
    /\ events' = Append(events, Ev("sftp_close", <<>>, <<>>))
    /\ sftpOpen' = FALSE
    /\ sshPc' = AfterTryBlock(sshExc)
    /\ UNCHANGED <<sshCall, remote, localKind, session, stack, sshExc>>
    /\ UNCHANGED restVars

\* finally: client.close(); then control is back at the caller
Finally ==
    /\ sshPc = "finally"
    /\ events' = Append(events, Ev("close", <<>>, <<>>))
    /\ session' = "closed"
    /\ sshPc' = "returned"
    /\ UNCHANGED <<sshCall, remote, localKind, sftpOpen, stack, sshExc>>
    /\ UNCHANGED restVars

\* no REST call is under way
RestIdle ==
    /\ call = default_rest_call
    /\ pc = "idle"
    /\ handles = <<>>
    /\ augError = NoExc
    /\ response = NoResponse
    /\ request = NoRequest
    /\ inner = NoExc
    /\ outcome = NoExc
    /\ logged = <<>>

SshNext ==
    \/ Connect
    \/ OpenSftp
    \/ UpStat
    \/ UpMkdir
    \/ UpCopy
    \/ DlLocalMkdir
    \/ DlStat
    \/ DlGet
    \/ DlList
    \/ DlItem
    \/ DlReturn
    \/ SftpExit
    \/ Finally

\* make_copy_files_ssh_call runs on one thread, which keeps running until
\* it returns
SshStart == SshInit /\ RestIdle

SshSpec == SshStart /\ [][SshNext]_vars /\ WF_vars(SshNext)

---------------------------------------------------------------------------
(* Properties of the REST call lifecycle *)

\* make_rest_call has run and the transport answered the request
Answered == pc = "done" /\ request.sent /\ response.ok
StatusAccepted == InSeq(response.status, call.status_codes)
\* make_rest_call returned without raising
Returned == outcome.type = "none"
HasAssertion == call.assertion.k # "null"
\* the kind of the assertion's value ("" without an assertion value)
ValueKind ==
    IF HasAssertion /\ call.assertion.k = "map" /\ "value" \in DOMAIN call.assertion.v
    THEN call.assertion.v["value"].k ELSE ""
OnlyDefined ==
    /\ HasAssertion
    /\ "only_defined" \in DOMAIN call.assertion.v
    /\ PyTruth(call.assertion.v["only_defined"])
\* the call has a file or multipart attachment
HasAttachment ==
    \/ call.files.k # "null" /\ Len(call.files.v) > 0
    \/ call.multipart.k # "null" /\ Len(call.multipart.v) > 0
\* the parsed body equals the expected value of the assertion
BodyEqualsValue ==
    response.json.k # "nojson" /\ PyEq(response.json, call.assertion.v["value"])
\* the keys of the expected mapping that the body lacks or holds with another value
FailingKeys ==
    {key \in DOMAIN call.assertion.v["value"].v :
        \/ key \notin DOMAIN response.json.v
        \/ ~PyEq(response.json.v[key], call.assertion.v["value"].v[key])}

\* C1: with no assertion configured, make_rest_call returns without raising
\* exactly when the response status is one of call.status_codes, and raises
\* AssertionError when it is not.
C1_StatusDecidesOutcome ==
    (Answered /\ ~HasAssertion) =>
        /\ Returned <=> StatusAccepted
        /\ ~StatusAccepted => outcome.type = "AssertionError"

\* C2: with an assertion configured, whenever assert_response raises an
\* AssertionError, make_rest_call logs the rendered expected value and
\* raises that same AssertionError, for every response type.
C2_AssertionErrorReraised ==
    (pc = "done" /\ HasAssertion /\ inner.type = "AssertionError") =>
        /\ outcome = inner
        /\ Len(logged) = 1

\* C3: a mapping assertion with only_defined false and an accepted status
\* passes exactly when the parsed body equals the expected mapping.
C3_FullMappingEquality ==
    (Answered /\ StatusAccepted /\ ValueKind = "map" /\ ~OnlyDefined) =>
        (Returned <=> BodyEqualsValue)

\* C4: a mapping assertion with only_defined true and an accepted status
\* passes exactly when the body is a mapping holding every expected key with
\* an equal value; when a key is missing or differs, the call fails with an
\* AssertionError naming such a key.
C4_OnlyDefinedSubset ==
    (Answered /\ StatusAccepted /\ ValueKind = "map" /\ OnlyDefined) =>
        /\ Returned <=> (response.json.k = "map" /\ FailingKeys = {})
        /\ (response.json.k = "map" /\ FailingKeys # {}) =>
              (outcome.type = "AssertionError" /\ outcome.key \in FailingKeys)

\* C5: a call with a file or multipart attachment is dispatched, and the
\* dispatched request carries no Content-Type header, whatever the headers
\* are. (Stated for the calls with timeout 0, which the doubled timeout
\* keyword of the dispatch does not stop.)
C5_AttachmentDropsContentType ==
    (pc = "done" /\ HasAttachment /\ call.timeout = 0) =>
        (request.sent /\ "Content-Type" \notin request.headers)

\* C6: with timeout 0 the request is dispatched without a timeout argument;
\* with a positive timeout it is dispatched with exactly that timeout.
\* (Stated for the calls without attachments, which the deletion of the
\* Content-Type header does not stop.)
C6_TimeoutPassedThrough ==
    (pc = "done" /\ ~HasAttachment) =>
        /\ call.timeout = 0 => (request.sent /\ "timeout" \notin request.kwargs)
        /\ call.timeout > 0 => (request.sent /\ request.timeout = call.timeout)

\* C7: when the outcome of a call is reported (augment_rest_call raised, or
\* make_rest_call returned or raised), every file handle that
\* augment_rest_call opened is closed.
C7_HandlesClosedOnExit ==
    pc \in {"failed", "done"} => \A i \in 1..Len(handles) : ~handles[i].open

\* C10: augment_rest_call accepts an assertion whose value is a sequence, and
\* with an accepted status the call passes exactly when the parsed body
\* equals the expected sequence.
C10_SequenceAssertion ==
    ValueKind = "list" =>
        /\ pc = "failed" => augError.at # "value_type"
        /\ (Answered /\ StatusAccepted) => (Returned <=> BodyEqualsValue)

---------------------------------------------------------------------------
(* Properties of the SSH copy *)

EventsOf(ops) == {i \in 1..Len(events) : events[i].op \in ops}

\* C8: when make_copy_files_ssh_call is back at its caller the SSH session is
\* closed, whether the call succeeded or raised, and no SFTP operation
\* (stat, mkdir, listdir, put, get) is issued after the session was closed.
C8_SessionClosedOnReturn ==
    /\ sshPc = "returned" => session = "closed"
    /\ \A i \in EventsOf({"close"}) : \A j \in EventsOf(SftpOps) : j < i

\* a transfer operation raised and the call is back at its caller
C8_Witness ==
    /\ sshPc = "returned"
    /\ sshExc.type = "IOError"
    /\ EventsOf(SftpOps) # {}
    /\ EventsOf({"close"}) # {}

\* local_path joined with the path of a remote entry relative to remote_path
LocalOf(path) ==
    sshCall.local_path \o SubSeq(path, Len(sshCall.remote_path) + 1, Len(path))

RemoteFiles == {nd \in remote.nodes : ~nd.dir}
RemoteDirs == {nd \in remote.nodes : nd.dir}

\* the download of a remote directory has returned without an exception
DownloadDone ==
    /\ sshPc = "returned"
    /\ sshCall.download
    /\ remote.root = "dir"
    /\ sshExc.type = "none"

\* one get per remote file, to its mirrored local path, and nothing else;
\* a local directory for every remote directory
DownloadMirrorsTree ==
    DownloadDone =>
        /\ \A nd \in RemoteFiles :
             Cardinality({i \in EventsOf({"get"}) : events[i].src = nd.path}) = 1
        /\ \A i \in EventsOf({"get"}) :
             \E nd \in RemoteFiles :
                 events[i].src = nd.path /\ events[i].dst = LocalOf(nd.path)
        /\ \A nd \in RemoteDirs :
             \E i \in EventsOf({"local_mkdir"}) : events[i].src = LocalOf(nd.path)

\* a file is transferred only after the local directory it goes into was created
DirectoryBeforeFile ==
    sshCall.download =>
        \A i \in EventsOf({"get"}) :
            \E j \in EventsOf({"local_mkdir"}) :
                j < i /\ events[j].src = PathParent(events[i].dst)

\* C9: the download of a remote directory tree terminates; when it has
\* returned without an exception, exactly one get per remote file was done,
\* each to local_path joined with the file's path relative to remote_path,
\* every remote directory has its local directory, and that directory was
\* created before any file in it was transferred.
C9_DownloadMirrorsTree ==
    /\ (sshCall.download /\ remote.root = "dir") ~> (sshPc = "returned")
    /\ [](DownloadMirrorsTree /\ DirectoryBeforeFile)

\* a file two directories below remote_path was downloaded
C9_Witness ==
    /\ DownloadDone
    /\ \E i \in EventsOf({"get"}) : Len(events[i].src) = Len(sshCall.remote_path) + 3

\* the call uploads a local_path that is a directory
UploadOfDirectory == ~sshCall.download /\ localKind = "dir"

\* C11: an upload whose local_path is a directory ends with an exception at
\* the caller of make_copy_files_ssh_call, and no sftp.put is issued at any
\* point of the call.
C11_DirectoryUploadRefused ==
    UploadOfDirectory =>
        /\ sshPc = "returned" => sshExc.type # "none"
        /\ EventsOf({"put"}) = {}

\* the directory was refused by copy_remote_file after the remote directory
\* was probed, and the call is back at its caller
C11_Witness ==
    /\ UploadOfDirectory
    /\ sshPc = "returned"
    /\ sshExc = Exc("AssertionError", "is_dir", "")
    /\ EventsOf({"stat"}) # {}

===========================================================================
